---- MODULE Spec2Model ----
(***************************************************************************)
(* The Excel import session of InventoryComponent                          *)
(* (frontend/src/app/inventory/inventory.component.ts, duplicate-aware     *)
(* revision): workbook analysis, the editable preview (staged rows), the   *)
(* commit over the WebSocket channel and the timers the component arms.    *)
(*                                                                         *)
(* Objects are modelled by value.  The one alias the component keeps,      *)
(* editingRow, is a reference to a row object: it is modelled as a         *)
(* position in previewData while the object is an element of that array,   *)
(* and as "detached" once the array no longer holds the object.            *)
(***************************************************************************)
EXTENDS Integers, Sequences, FiniteSets, TLC

VARIABLES
  showExcelModal,          \* modal visibility
  selectedFile,            \* 0 = null, else a file id
  sheets,                  \* SheetInfo[] of the analysed workbook
  selectedSheet,           \* "" or a sheet name
  showSheetSelector,
  showPreview,
  previewData,             \* PreviewRow[] (the staged rows)
  originalPreviewData,     \* deep copy taken when the preview is installed
  totalRows,
  hasDuplicates,
  duplicatesCount,
  newProductsCount,
  showDuplicatesModal,
  selectedDuplicateAction,
  editingRow,              \* reference to the row object under edit
  editingRowCopy,          \* shallow copy of that row taken by startEdit
  isUploading,
  uploadProgress,
  uploadStats,
  errors,                  \* accumulated row error messages
  showErrorDialog,
  generalError,            \* "" or the message showError displays
  errorTimers,             \* pending setTimeout of showError (5000 ms)
  ws,                      \* 0 = null, else the id of the referenced socket
  conns,                   \* readyState of every socket the component made
  retryTimers,             \* pending setTimeout(() => confirmUpload(), 1000)
  reconnectTimers,         \* pending onclose setTimeout(..., 3000)
  closeTimers,             \* pending setTimeout of the complete branch
  analyzeReqs,             \* analyze requests awaiting their response
  previewReqs,             \* preview requests awaiting their response
  jobs,                    \* per socket: start_upload commands sent, not yet answered
  catalog,                 \* the catalog store the server writes to
  items,                   \* the product list loaded from the server
  itemsRequested,          \* a getItems request of loadItems() awaits its response
  newItem,                 \* the form of the new product
  duplicateWarning,        \* "" or the warning addItem displays
  warningTimers,           \* pending setTimeout of addItem (5000 ms)
  addReqs,                 \* create requests of addItem awaiting their response
  destroyed                \* ngOnDestroy has run

storeVars == <<previewData, originalPreviewData, totalRows, hasDuplicates, duplicatesCount, newProductsCount, showDuplicatesModal, editingRow, editingRowCopy>>
fileVars == <<showExcelModal, selectedFile, sheets, selectedSheet, showSheetSelector, analyzeReqs, previewReqs>>
uploadVars == <<isUploading, uploadProgress, uploadStats, errors, showErrorDialog, generalError, errorTimers>>
chanVars == <<ws, conns, retryTimers, reconnectTimers, closeTimers, jobs, catalog>>
pageVars == <<items, itemsRequested, newItem, duplicateWarning, warningTimers, addReqs, destroyed>>
vars == <<storeVars, fileVars, uploadVars, chanVars, pageVars, showPreview, selectedDuplicateAction>>

----------------------------------------------------------------------------
(* Bounds of the model *)

MaxRows == 2
MaxConns == 2
MaxTimers == 2
MaxInFlight == 2
MaxRequests == 1
MaxCatalog == 3

----------------------------------------------------------------------------
(* Names are character sequences, so that normalisation is computed. *)

Bolt == <<"B", "o", "l", "t">>
boltSp == <<"b", "o", "l", "t", " ">>
Nut == <<"N", "u", "t">>

Names == {boltSp, Nut}
Prices == {5, -1}

ToLowerChar(c) == CASE c = "B" -> "b" [] c = "N" -> "n" [] c = "X" -> "x" [] c = "L" -> "l" [] c = "S" -> "s" [] OTHER -> c

ToLowerCase(s) == [i \in 1..Len(s) |-> ToLowerChar(s[i])]

RECURSIVE TrimStart(_)
TrimStart(s) == IF s # <<>> /\ Head(s) = " " THEN TrimStart(Tail(s)) ELSE s

RECURSIVE TrimEnd(_)
TrimEnd(s) == IF s # <<>> /\ s[Len(s)] = " " THEN TrimEnd(SubSeq(s, 1, Len(s) - 1)) ELSE s

Trim(s) == TrimEnd(TrimStart(s))

NormalizeName(s) == Trim(ToLowerCase(s))

----------------------------------------------------------------------------
(* The catalog and the preview the server builds from a sheet.  The server *)
(* is not part of the component: these follow the design of the Duplicate  *)
(* Resolver.                                                               *)

Catalog == <<[id |-> 1, name |-> Bolt, price |-> 4]>>

\* the product form as the component initialises and resets it
EmptyItem == [name |-> <<>>, description |-> ""]

\* the product list has been loaded (loadItems() of ngOnInit answered), the
\* form is untouched
ListLoaded ==
  /\ items = Catalog
  /\ itemsRequested = FALSE
  /\ newItem = EmptyItem
  /\ duplicateWarning = ""
  /\ warningTimers = 0
  /\ addReqs = <<>>
  /\ destroyed = FALSE

\* the catalog store: its entries and the id the next created entry gets
InitialCatalog == [entries |-> Catalog, next_id |-> Len(Catalog) + 1]

\* first catalog entry (by catalog order) with the same normalized name, 0 if none
FindByNormalizedName(name) == IF \E k \in 1..Len(Catalog) : NormalizeName(Catalog[k].name) = NormalizeName(name) THEN Catalog[CHOOSE k \in 1..Len(Catalog) : NormalizeName(Catalog[k].name) = NormalizeName(name) /\ \A j \in 1..(k - 1) : NormalizeName(Catalog[j].name) # NormalizeName(name)].id ELSE 0

\* error takes precedence over the name match
Classify(name, price) == IF price < 0 THEN "error" ELSE IF FindByNormalizedName(name) # 0 THEN "duplicate" ELSE "new"

\* temp_id 1..N in sheet order
BuildPreview(raw) == [i \in 1..Len(raw) |-> [temp_id |-> i, name |-> raw[i].name, price |-> raw[i].price, status |-> Classify(raw[i].name, raw[i].price), existing_id |-> FindByNormalizedName(raw[i].name)]]

CountStatus(rows, st) == Cardinality({i \in 1..Len(rows) : rows[i].status = st})

\* the preview response: rows plus the summary computed at build time
PreviewResponseData(raw) == [preview_rows |-> BuildPreview(raw), total_rows |-> Len(raw), has_duplicates |-> CountStatus(BuildPreview(raw), "duplicate") > 0, duplicates_found |-> CountStatus(BuildPreview(raw), "duplicate"), new_products |-> CountStatus(BuildPreview(raw), "new")]

RawRow == [name : Names, price : Prices]

RawSheets == UNION {[1..n -> RawRow] : n \in 0..MaxRows}

----------------------------------------------------------------------------
(* Values of the component's fields *)

NoRow == [temp_id |-> 0, name |-> <<>>, price |-> 0, status |-> "", existing_id |-> 0]
NoEdit == [kind |-> "null", idx |-> 0]
Detached == [kind |-> "detached", idx |-> 0]
\* a JavaScript value that is a number or an array
Num(n) == [t |-> "number", n |-> n, a |-> <<>>]
Arr(a) == [t |-> "array", n |-> 0, a |-> a]
ZeroStats == [created |-> 0, updated |-> 0, skipped |-> 0, errors |-> Num(0)]
DuplicateActions == {"skip", "update", "create_new"}

\* the object editingRow refers to stops being an element of previewData
Detach(er) == IF er.kind = "list" THEN Detached ELSE er

RemoveAt(seq, i) == [j \in 1..(Len(seq) - 1) |-> IF j < i THEN seq[j] ELSE seq[j + 1]]

\* Array.prototype.findIndex(r => r.temp_id === tid): first match, 0 for -1
FindIndex(rows, tid) == IF \E i \in 1..Len(rows) : rows[i].temp_id = tid THEN CHOOSE i \in 1..Len(rows) : rows[i].temp_id = tid /\ \A j \in 1..(i - 1) : rows[j].temp_id # tid ELSE 0

Range(seq) == {seq[i] : i \in 1..Len(seq)}

----------------------------------------------------------------------------
(* Preview Store: the edit transaction and deleteRow *)

\* startEdit(row), row an element of previewData: keeps the reference and a shallow copy
startEdit(i) ==
  /\ i \in 1..Len(previewData)
  /\ editingRow' = [kind |-> "list", idx |-> i]
  /\ editingRowCopy' = previewData[i]
  /\ UNCHANGED <<previewData, originalPreviewData, totalRows, hasDuplicates, duplicatesCount, newProductsCount, showDuplicatesModal>>
  /\ UNCHANGED <<fileVars, uploadVars, chanVars, showPreview, selectedDuplicateAction>>
  /\ UNCHANGED pageVars

\* the edit form writes a data column of the row under edit, in place
editField(field, value) ==
  /\ editingRow.kind = "list"
  /\ field \in {"name", "price"}
  /\ previewData' = [previewData EXCEPT ![editingRow.idx] = [@ EXCEPT ![field] = value]]
  /\ UNCHANGED <<originalPreviewData, totalRows, hasDuplicates, duplicatesCount, newProductsCount, showDuplicatesModal, editingRow, editingRowCopy>>
  /\ UNCHANGED <<fileVars, uploadVars, chanVars, showPreview, selectedDuplicateAction>>
  /\ UNCHANGED pageVars

\* cancelEdit as it would be without the Object.assign
cancelEdit_noRestore ==
  /\ editingRow' = NoEdit
  /\ editingRowCopy' = NoRow
  /\ UNCHANGED <<previewData, originalPreviewData, totalRows, hasDuplicates, duplicatesCount, newProductsCount, showDuplicatesModal>>
  /\ UNCHANGED <<fileVars, uploadVars, chanVars, showPreview, selectedDuplicateAction>>
  /\ UNCHANGED pageVars

\* cancelEdit(): Object.assign(editingRow, editingRowCopy), then both null
cancelEdit ==
  /\ previewData' = IF editingRow.kind = "list" /\ editingRowCopy # NoRow THEN [previewData EXCEPT ![editingRow.idx] = editingRowCopy] ELSE previewData
  /\ editingRow' = NoEdit
  /\ editingRowCopy' = NoRow
  /\ UNCHANGED <<originalPreviewData, totalRows, hasDuplicates, duplicatesCount, newProductsCount, showDuplicatesModal>>
  /\ UNCHANGED <<fileVars, uploadVars, chanVars, showPreview, selectedDuplicateAction>>
  /\ UNCHANGED pageVars

\* saveEdit as it would be if it put the copy back like cancelEdit
saveEdit_restores ==
  /\ previewData' = IF editingRow.kind = "list" /\ editingRowCopy # NoRow THEN [previewData EXCEPT ![editingRow.idx] = editingRowCopy] ELSE previewData
  /\ editingRow' = NoEdit
  /\ editingRowCopy' = NoRow
  /\ UNCHANGED <<originalPreviewData, totalRows, hasDuplicates, duplicatesCount, newProductsCount, showDuplicatesModal>>
  /\ UNCHANGED <<fileVars, uploadVars, chanVars, showPreview, selectedDuplicateAction>>
  /\ UNCHANGED pageVars

\* saveEdit(): both null, nothing else
saveEdit ==
  /\ editingRow' = NoEdit
  /\ editingRowCopy' = NoRow
  /\ UNCHANGED <<previewData, originalPreviewData, totalRows, hasDuplicates, duplicatesCount, newProductsCount, showDuplicatesModal>>
  /\ UNCHANGED <<fileVars, uploadVars, chanVars, showPreview, selectedDuplicateAction>>
  /\ UNCHANGED pageVars

\* where editingRow points after previewData.splice(index, 1)
AfterSplice(er, index) == IF er.kind # "list" THEN er ELSE IF er.idx = index THEN Detached ELSE IF er.idx > index THEN [er EXCEPT !.idx = er.idx - 1] ELSE er

\* deleteRow as it would be without the hasDuplicates update
deleteRow_keepsFlag(row) ==
  LET index == FindIndex(previewData, row.temp_id) IN
  /\ IF index > 0
       THEN /\ previewData' = RemoveAt(previewData, index)
            /\ totalRows' = totalRows - 1
            /\ duplicatesCount' = IF row.status = "duplicate" THEN duplicatesCount - 1 ELSE duplicatesCount
            /\ newProductsCount' = IF row.status = "new" THEN newProductsCount - 1 ELSE newProductsCount
            /\ editingRow' = AfterSplice(editingRow, index)
            /\ UNCHANGED hasDuplicates
       ELSE UNCHANGED <<previewData, totalRows, duplicatesCount, hasDuplicates, newProductsCount, editingRow>>
  /\ UNCHANGED <<originalPreviewData, showDuplicatesModal, editingRowCopy>>
  /\ UNCHANGED <<fileVars, uploadVars, chanVars, showPreview, selectedDuplicateAction>>
  /\ UNCHANGED pageVars

\* deleteRow as in the revision without duplicate counters: only totalRows moves
deleteRow_noCounters(row) ==
  LET index == FindIndex(previewData, row.temp_id) IN
  /\ IF index > 0
       THEN /\ previewData' = RemoveAt(previewData, index)
            /\ totalRows' = totalRows - 1
            /\ editingRow' = AfterSplice(editingRow, index)
       ELSE UNCHANGED <<previewData, totalRows, editingRow>>
  /\ UNCHANGED <<originalPreviewData, showDuplicatesModal, editingRowCopy, duplicatesCount, hasDuplicates, newProductsCount>>
  /\ UNCHANGED <<fileVars, uploadVars, chanVars, showPreview, selectedDuplicateAction>>
  /\ UNCHANGED pageVars

\* deleteRow as it would be if the rows left were numbered again from 1
deleteRow_renumbers(row) ==
  LET index == FindIndex(previewData, row.temp_id) IN
  /\ IF index > 0
       THEN /\ previewData' = [j \in 1..(Len(previewData) - 1) |-> [RemoveAt(previewData, index)[j] EXCEPT !.temp_id = j]]
            /\ totalRows' = totalRows - 1
            /\ duplicatesCount' = IF row.status = "duplicate" THEN duplicatesCount - 1 ELSE duplicatesCount
            /\ hasDuplicates' = IF row.status = "duplicate" /\ duplicatesCount - 1 = 0 THEN FALSE ELSE hasDuplicates
            /\ newProductsCount' = IF row.status = "new" THEN newProductsCount - 1 ELSE newProductsCount
            /\ editingRow' = AfterSplice(editingRow, index)
       ELSE UNCHANGED <<previewData, totalRows, duplicatesCount, hasDuplicates, newProductsCount, editingRow>>
  /\ UNCHANGED <<originalPreviewData, showDuplicatesModal, editingRowCopy>>
  /\ UNCHANGED <<fileVars, uploadVars, chanVars, showPreview, selectedDuplicateAction>>
  /\ UNCHANGED pageVars

\* deleteRow(row): row is the object handed in, found again by its temp_id
deleteRow(row) ==
  LET index == FindIndex(previewData, row.temp_id) IN
  /\ IF index > 0
       THEN /\ previewData' = RemoveAt(previewData, index)
            /\ totalRows' = totalRows - 1
            /\ duplicatesCount' = IF row.status = "duplicate" THEN duplicatesCount - 1 ELSE duplicatesCount
            /\ hasDuplicates' = IF row.status = "duplicate" /\ duplicatesCount - 1 = 0 THEN FALSE ELSE hasDuplicates
            /\ newProductsCount' = IF row.status = "new" THEN newProductsCount - 1 ELSE newProductsCount
            /\ editingRow' = AfterSplice(editingRow, index)
       ELSE UNCHANGED <<previewData, totalRows, duplicatesCount, hasDuplicates, newProductsCount, editingRow>>
  /\ UNCHANGED <<originalPreviewData, showDuplicatesModal, editingRowCopy>>
  /\ UNCHANGED <<fileVars, uploadVars, chanVars, showPreview, selectedDuplicateAction>>
  /\ UNCHANGED pageVars

selectDuplicateAction(action) ==
  /\ selectedDuplicateAction' = action
  /\ UNCHANGED <<storeVars, fileVars, uploadVars, chanVars, showPreview>>
  /\ UNCHANGED pageVars

\* closeDuplicatesModal() and proceedWithDuplicates() do the same
closeDuplicatesModal ==
  /\ showDuplicatesModal' = FALSE
  /\ UNCHANGED <<previewData, originalPreviewData, totalRows, hasDuplicates, duplicatesCount, newProductsCount, editingRow, editingRowCopy>>
  /\ UNCHANGED <<fileVars, uploadVars, chanVars, showPreview, selectedDuplicateAction>>
  /\ UNCHANGED pageVars

----------------------------------------------------------------------------
(* Messages *)

\* showError(message): shows it and arms the timer that clears it
showError(message) ==
  /\ errorTimers < MaxTimers
  /\ generalError' = message
  /\ errorTimers' = errorTimers + 1

\* the timer of showError fires
errorTimerFires ==
  /\ errorTimers > 0
  /\ errorTimers' = errorTimers - 1
  /\ generalError' = ""
  /\ UNCHANGED <<isUploading, uploadProgress, uploadStats, errors, showErrorDialog>>
  /\ UNCHANGED <<storeVars, fileVars, chanVars, showPreview, selectedDuplicateAction>>
  /\ UNCHANGED pageVars

----------------------------------------------------------------------------
(* Session reset *)

\* resetUploadState(): its assignments; previewData becomes a new empty array, so
\* the row under edit, if any, is no longer one of its elements
resetUploadState ==
  /\ selectedFile' = 0
  /\ sheets' = <<>>
  /\ selectedSheet' = ""
  /\ showSheetSelector' = FALSE
  /\ showPreview' = FALSE
  /\ previewData' = <<>>
  /\ originalPreviewData' = <<>>
  /\ totalRows' = 0
  /\ uploadProgress' = 0
  /\ uploadStats' = ZeroStats
  /\ errors' = <<>>
  /\ isUploading' = FALSE
  /\ hasDuplicates' = FALSE
  /\ duplicatesCount' = 0
  /\ newProductsCount' = 0
  /\ showDuplicatesModal' = FALSE
  /\ selectedDuplicateAction' = "skip"
  /\ editingRow' = Detach(editingRow)
  /\ generalError' = ""
  /\ UNCHANGED <<editingRowCopy, showErrorDialog, errorTimers, analyzeReqs, previewReqs>>

openExcelUploader ==
  /\ showExcelModal' = TRUE
  /\ resetUploadState
  /\ UNCHANGED chanVars
  /\ UNCHANGED pageVars

closeExcelModal ==
  /\ showExcelModal' = FALSE
  /\ resetUploadState
  /\ UNCHANGED chanVars
  /\ UNCHANGED pageVars

cancelPreview ==
  /\ IF Len(sheets) > 1
       THEN /\ showPreview' = FALSE
            /\ previewData' = <<>>
            /\ selectedSheet' = ""
            /\ hasDuplicates' = FALSE
            /\ duplicatesCount' = 0
            /\ newProductsCount' = 0
            /\ showSheetSelector' = TRUE
            /\ editingRow' = Detach(editingRow)
            /\ UNCHANGED <<originalPreviewData, totalRows, showDuplicatesModal, editingRowCopy, selectedDuplicateAction>>
            /\ UNCHANGED <<showExcelModal, selectedFile, sheets, analyzeReqs, previewReqs, uploadVars>>
       ELSE /\ resetUploadState
            /\ UNCHANGED showExcelModal
  /\ UNCHANGED chanVars
  /\ UNCHANGED pageVars

----------------------------------------------------------------------------
(* Files the operator can pick, and what the server answers for them.      *)

Files == {1, 2}

Sheet(name, valid) == [name |-> name, is_valid |-> valid]

\* analyze(file): the sheets with their verdict
WorkbookSheets(f) == IF f = 1 THEN <<Sheet("S1", TRUE)>> ELSE <<Sheet("S1", TRUE), Sheet("S2", FALSE)>>

\* the raw rows of a valid sheet
SheetRows(f, sheet) == IF f = 1 THEN <<[name |-> boltSp, price |-> 5], [name |-> Nut, price |-> 5]>> ELSE <<[name |-> boltSp, price |-> -1]>>

SheetIsValid(f, sheet) == \E i \in 1..Len(WorkbookSheets(f)) : WorkbookSheets(f)[i].name = sheet /\ WorkbookSheets(f)[i].is_valid

\* selected_sheet of the analyze response: absent ("") or one of the sheets
SuggestedSheets(f) == {""} \cup {WorkbookSheets(f)[i].name : i \in 1..Len(WorkbookSheets(f))}

----------------------------------------------------------------------------
(* Workbook analysis and preview loading (HTTP, answered asynchronously)   *)

\* loadPreviewWithDuplicates(): the request it issues, given the values it reads
PreviewRequests(file, sheet) == IF file # 0 /\ sheet # "" THEN Append(previewReqs, [file |-> file, sheet |-> sheet]) ELSE previewReqs

\* String.prototype.lastIndexOf(ch) as a position from 1, 0 for -1
LastIndexOf(str, ch) == IF \E i \in 1..Len(str) : str[i] = ch THEN CHOOSE i \in 1..Len(str) : str[i] = ch /\ \A j \in (i + 1)..Len(str) : str[j] # ch ELSE 0

\* String.prototype.substring(start), start a position from 1; substring(-1) is
\* the whole string
Substring(str, start) == SubSeq(str, IF start < 1 THEN 1 ELSE start, Len(str))

\* file.name.substring(file.name.lastIndexOf('.')).toLowerCase()
FileExtension(name) == ToLowerCase(Substring(name, LastIndexOf(name, ".")))

validExtensions == {<<".", "x", "l", "s">>, <<".", "x", "l", "s", "x">>}

\* 10 * 1024 * 1024
maxSize == 10485760

\* the size check as it would be with >= for >
TooLarge_inclusive(file) == file.size >= maxSize

TooLarge(file) == file.size > maxSize

BadExtension(file) == FileExtension(file.name) \notin validExtensions

\* what the operator can hand to the file input: a name, a size, a content
FileNames == {<<"a", ".", "x", "l", "s", "x">>, <<"a", ".", "X", "L", "S">>, <<"a", ".", "c", "s", "v">>, <<"x", "l", "s", "x">>}
FileSizes == {1, maxSize, maxSize + 1}
FileInputs == [name : FileNames, size : FileSizes, book : Files]

\* onFileSelected(event), file = event.target.files[0], then analyzeFile()
onFileSelected(file) ==
  /\ file \in FileInputs
  /\ IF BadExtension(file)
       THEN /\ showError("format")
            /\ UNCHANGED <<selectedFile, errors, analyzeReqs>>
       ELSE IF TooLarge(file)
         THEN /\ showError("size")
              /\ UNCHANGED <<selectedFile, errors, analyzeReqs>>
         ELSE /\ Len(analyzeReqs) < MaxRequests
              /\ selectedFile' = file.book
              /\ errors' = <<>>
              /\ generalError' = ""
              /\ analyzeReqs' = Append(analyzeReqs, file.book)
              /\ UNCHANGED errorTimers
  /\ UNCHANGED <<showExcelModal, sheets, selectedSheet, showSheetSelector, previewReqs>>
  /\ UNCHANGED <<storeVars, chanVars, showPreview, selectedDuplicateAction, isUploading, uploadProgress, uploadStats, showErrorDialog>>
  /\ UNCHANGED pageVars

\* next: of analyzeExcel(...).subscribe, response.success true
analyzeResponse(k, suggested) ==
  LET f == analyzeReqs[k]
      total == Len(WorkbookSheets(f))
      chosen == IF total > 1 THEN suggested ELSE IF WorkbookSheets(f)[1].is_valid THEN WorkbookSheets(f)[1].name ELSE ""
      refused == total = 1 /\ ~WorkbookSheets(f)[1].is_valid IN
  /\ k \in 1..Len(analyzeReqs)
  /\ suggested \in SuggestedSheets(f)
  /\ total = 1 => suggested = ""
  /\ chosen # "" => Len(previewReqs) < MaxRequests
  /\ analyzeReqs' = RemoveAt(analyzeReqs, k)
  /\ sheets' = WorkbookSheets(f)
  /\ showSheetSelector' = IF total > 1 THEN TRUE ELSE showSheetSelector
  /\ selectedSheet' = IF chosen # "" THEN chosen ELSE selectedSheet
  /\ previewReqs' = IF chosen # "" THEN PreviewRequests(selectedFile, chosen) ELSE previewReqs
  /\ IF refused THEN showError("sheet") ELSE UNCHANGED <<generalError, errorTimers>>
  /\ UNCHANGED <<showExcelModal, selectedFile>>
  /\ UNCHANGED <<isUploading, uploadProgress, uploadStats, errors, showErrorDialog>>
  /\ UNCHANGED <<storeVars, chanVars, showPreview, selectedDuplicateAction>>
  /\ UNCHANGED pageVars

\* selectSheet(sheetName) for a sheet of the list shown
selectSheet(name) ==
  /\ \E i \in 1..Len(sheets) : sheets[i].name = name
  /\ Len(previewReqs) < MaxRequests
  /\ IF \E i \in 1..Len(sheets) : sheets[i].name = name /\ ~sheets[i].is_valid
       THEN /\ showError("sheet")
            /\ UNCHANGED <<selectedSheet, previewReqs>>
       ELSE /\ selectedSheet' = name
            /\ previewReqs' = PreviewRequests(selectedFile, name)
            /\ UNCHANGED <<generalError, errorTimers>>
  /\ UNCHANGED <<showExcelModal, selectedFile, sheets, showSheetSelector, analyzeReqs>>
  /\ UNCHANGED <<isUploading, uploadProgress, uploadStats, errors, showErrorDialog>>
  /\ UNCHANGED <<storeVars, chanVars, showPreview, selectedDuplicateAction>>
  /\ UNCHANGED pageVars

\* next: of validateDuplicates(...).subscribe, response.success true
previewResponse(k) ==
  LET req == previewReqs[k]
      data == PreviewResponseData(SheetRows(req.file, req.sheet)) IN
  /\ k \in 1..Len(previewReqs)
  /\ SheetIsValid(req.file, req.sheet)
  /\ previewReqs' = RemoveAt(previewReqs, k)
  /\ previewData' = data.preview_rows
  /\ originalPreviewData' = data.preview_rows
  /\ totalRows' = data.total_rows
  /\ hasDuplicates' = data.has_duplicates
  /\ duplicatesCount' = data.duplicates_found
  /\ newProductsCount' = data.new_products
  /\ showPreview' = TRUE
  /\ showSheetSelector' = FALSE
  /\ showDuplicatesModal' = IF data.has_duplicates THEN TRUE ELSE showDuplicatesModal
  /\ editingRow' = Detach(editingRow)
  /\ UNCHANGED <<editingRowCopy, showExcelModal, selectedFile, sheets, selectedSheet, analyzeReqs>>
  /\ UNCHANGED <<uploadVars, chanVars, selectedDuplicateAction>>
  /\ UNCHANGED pageVars

\* error: of validateDuplicates(...).subscribe (an invalid sheet): handleError only
previewError(k) ==
  /\ k \in 1..Len(previewReqs)
  /\ ~SheetIsValid(previewReqs[k].file, previewReqs[k].sheet)
  /\ previewReqs' = RemoveAt(previewReqs, k)
  /\ showError("server")
  /\ UNCHANGED <<showExcelModal, selectedFile, sheets, selectedSheet, showSheetSelector, analyzeReqs>>
  /\ UNCHANGED <<isUploading, uploadProgress, uploadStats, errors, showErrorDialog>>
  /\ UNCHANGED <<storeVars, chanVars, showPreview, selectedDuplicateAction>>
  /\ UNCHANGED pageVars

----------------------------------------------------------------------------
(* The WebSocket channel *)

Conns == 1..MaxConns

CanConnect == \E c \in Conns : conns[c] \in {"NONE", "CLOSED"}

NewConn == CHOOSE c \in Conns : conns[c] \in {"NONE", "CLOSED"} /\ \A d \in Conns : d < c => conns[d] \notin {"NONE", "CLOSED"}

\* connectWebSocket(): this.ws = new WebSocket(url), with its handlers.  A closed
\* socket that ws no longer refers to is forgotten.
connectWebSocket ==
  /\ ws' = NewConn
  /\ conns' = [c \in Conns |-> IF c = NewConn THEN "CONNECTING" ELSE IF conns[c] = "CLOSED" THEN "NONE" ELSE conns[c]]

RECURSIVE SumJobs(_)
SumJobs(c) == IF c = 0 THEN 0 ELSE Len(jobs[c]) + SumJobs(c - 1)

\* commands sent and not yet answered, over all sockets
JobCount == SumJobs(MaxConns)

\* the command as it would be if the snapshot were sent instead of the staged rows
StartUploadMessage_snapshot(rows, action) == [action |-> "start_upload", rows |-> originalPreviewData, duplicate_action |-> action]

\* the command confirmUpload() serialises and sends
StartUploadMessage(rows, action) == [action |-> "start_upload", rows |-> rows, duplicate_action |-> action]

\* the commit the server starts for a command it receives
NewJob(msg) == [rows |-> msg.rows, duplicate_action |-> msg.duplicate_action, processed |-> 0, stats |-> [created |-> 0, updated |-> 0, skipped |-> 0, errors_count |-> 0], errors |-> <<>>]

\* the body of confirmUpload(); timers is the number of retries pending when it runs
ConfirmUploadBody(timers) ==
  IF ws = 0 \/ conns[ws] # "OPEN"
    THEN /\ CanConnect
         /\ timers < MaxTimers
         /\ showError("connection")
         /\ connectWebSocket
         /\ retryTimers' = timers + 1
         /\ UNCHANGED <<jobs, isUploading, uploadProgress, uploadStats, errors, showErrorDialog>>
    ELSE /\ JobCount < MaxInFlight
         /\ isUploading' = TRUE
         /\ uploadProgress' = 0
         /\ errors' = <<>>
         /\ uploadStats' = ZeroStats
         /\ jobs' = [jobs EXCEPT ![ws] = Append(@, NewJob(StartUploadMessage(previewData, selectedDuplicateAction)))]
         /\ retryTimers' = timers
         /\ UNCHANGED <<ws, conns, showErrorDialog, generalError, errorTimers>>

\* confirmUpload() called by the operator
confirmUpload ==
  /\ ConfirmUploadBody(retryTimers)
  /\ UNCHANGED <<reconnectTimers, closeTimers, catalog, storeVars, fileVars, showPreview, selectedDuplicateAction>>
  /\ UNCHANGED pageVars

\* setTimeout(() => this.confirmUpload(), 1000) fires
retryTimerFires ==
  /\ retryTimers > 0
  /\ ConfirmUploadBody(retryTimers - 1)
  /\ UNCHANGED <<reconnectTimers, closeTimers, catalog, storeVars, fileVars, showPreview, selectedDuplicateAction>>
  /\ UNCHANGED pageVars

\* onopen of socket c
socketOpen(c) ==
  /\ conns[c] = "CONNECTING"
  /\ conns' = [conns EXCEPT ![c] = "OPEN"]
  /\ UNCHANGED <<ws, retryTimers, reconnectTimers, closeTimers, jobs, catalog>>
  /\ UNCHANGED <<storeVars, fileVars, uploadVars, showPreview, selectedDuplicateAction>>
  /\ UNCHANGED pageVars

\* socket c closes (transport loss or server close); onclose arms the reconnect timer
socketClose(c) ==
  /\ conns[c] \in {"CONNECTING", "OPEN", "CLOSING"}
  /\ reconnectTimers < MaxTimers
  /\ conns' = [conns EXCEPT ![c] = IF ws = c THEN "CLOSED" ELSE "NONE"]
  /\ jobs' = [jobs EXCEPT ![c] = <<>>]
  /\ reconnectTimers' = reconnectTimers + 1
  /\ UNCHANGED <<ws, retryTimers, closeTimers, catalog>>
  /\ UNCHANGED <<storeVars, fileVars, uploadVars, showPreview, selectedDuplicateAction>>
  /\ UNCHANGED pageVars

\* the onclose timer fires: reconnect unless a commit is in flight
reconnectTimerFires ==
  /\ reconnectTimers > 0
  /\ reconnectTimers' = reconnectTimers - 1
  /\ IF ~isUploading
       THEN CanConnect /\ connectWebSocket
       ELSE UNCHANGED <<ws, conns>>
  /\ UNCHANGED <<retryTimers, closeTimers, jobs, catalog>>
  /\ UNCHANGED <<storeVars, fileVars, uploadVars, showPreview, selectedDuplicateAction>>
  /\ UNCHANGED pageVars

----------------------------------------------------------------------------
(* Events: the commit loop of the server (Import Orchestrator, by its      *)
(* design) and handleWebSocketMessage, which handles each event emitted.   *)

\* the catalog entry with persistent id, by position; 0 when absent
FindEntry(cat, id) == IF \E k \in 1..Len(cat.entries) : cat.entries[k].id = id THEN CHOOSE k \in 1..Len(cat.entries) : cat.entries[k].id = id ELSE 0

\* the outcome as it would be if skip overwrote the duplicate like update
RowOutcome_skipWrites(row, action, cat, fails) == IF row.status = "error" THEN "RowCoercionError" ELSE IF row.status = "duplicate" /\ action \in {"skip", "update"} /\ FindEntry(cat, row.existing_id) = 0 THEN "DuplicateTargetMissingError" ELSE IF fails THEN "PersistenceError" ELSE IF row.status = "duplicate" /\ action \in {"skip", "update"} THEN "updated" ELSE "created"

\* the outcome as it would be if a stale duplicate target were silently skipped
RowOutcome_staleSkipped(row, action, cat, fails) == IF row.status = "error" THEN "RowCoercionError" ELSE IF row.status = "duplicate" /\ action = "skip" THEN "skipped" ELSE IF row.status = "duplicate" /\ action = "update" /\ FindEntry(cat, row.existing_id) = 0 THEN "skipped" ELSE IF fails THEN "PersistenceError" ELSE IF row.status = "duplicate" /\ action = "update" THEN "updated" ELSE "created"

\* the outcome as it would be if a failed write were taken for a success
RowOutcome_failureIgnored(row, action, cat, fails) == IF row.status = "error" THEN "RowCoercionError" ELSE IF row.status = "duplicate" /\ action = "skip" THEN "skipped" ELSE IF row.status = "duplicate" /\ action = "update" /\ FindEntry(cat, row.existing_id) = 0 THEN "DuplicateTargetMissingError" ELSE IF row.status = "duplicate" /\ action = "update" THEN "updated" ELSE "created"

\* what becomes of one row: by row status, duplicate action, whether the
\* duplicate target still exists and whether the catalog write fails
RowOutcome(row, action, cat, fails) == IF row.status = "error" THEN "RowCoercionError" ELSE IF row.status = "duplicate" /\ action = "skip" THEN "skipped" ELSE IF row.status = "duplicate" /\ action = "update" /\ FindEntry(cat, row.existing_id) = 0 THEN "DuplicateTargetMissingError" ELSE IF fails THEN "PersistenceError" ELSE IF row.status = "duplicate" /\ action = "update" THEN "updated" ELSE "created"

RowErrors == {"RowCoercionError", "DuplicateTargetMissingError", "PersistenceError"}

\* the catalog after the row: create appends an entry, update overwrites the
\* value fields of the existing entry (name untouched), anything else writes nothing
WriteCatalog(cat, row, outcome) == IF outcome = "created" THEN [entries |-> Append(cat.entries, [id |-> cat.next_id, name |-> row.name, price |-> row.price]), next_id |-> cat.next_id + 1] ELSE IF outcome = "updated" THEN [cat EXCEPT !.entries[FindEntry(cat, row.existing_id)].price = row.price] ELSE cat

\* the aggregate as it would be if rows in error were not counted
ApplyRow_errorsUncounted(stats, outcome) == IF outcome \in RowErrors THEN stats ELSE [stats EXCEPT ![outcome] = @ + 1]

\* the aggregate after one row
ApplyRow(stats, outcome) == IF outcome \in RowErrors THEN [stats EXCEPT !.errors_count = @ + 1] ELSE [stats EXCEPT ![outcome] = @ + 1]

\* the row message recorded for a row counted as an error
RowMessage(row, outcome) == [temp_id |-> row.temp_id, error |-> outcome]

\* percentage = floor(processed / total * 100)
Percentage(processed, total) == (processed * 100) \div total

ProgressEvent(job) == [type |-> "progress", progress |-> Percentage(job.processed, Len(job.rows)), hasData |-> TRUE, data |-> job.stats, hasErrors |-> FALSE, errors |-> <<>>]

\* the complete event as it would be without the error list
CompleteEvent_noList(job) == [type |-> "complete", progress |-> 100, hasData |-> TRUE, data |-> job.stats, hasErrors |-> FALSE, errors |-> <<>>]

CompleteEvent(job) == [type |-> "complete", progress |-> 100, hasData |-> TRUE, data |-> job.stats, hasErrors |-> TRUE, errors |-> job.errors]

ErrorEvent == [type |-> "error", progress |-> 0, hasData |-> FALSE, data |-> [created |-> 0, updated |-> 0, skipped |-> 0, errors_count |-> 0], hasErrors |-> FALSE, errors |-> <<>>]

\* data.data.errors_count || data.data.errors || 0 (an array, even empty, is truthy)
StatsErrors(ev) == IF ev.data.errors_count # 0 THEN Num(ev.data.errors_count) ELSE IF ev.hasErrors THEN Arr(ev.errors) ELSE Num(0)

\* the handler as it would be if an error event ended the preview like a complete event
handleWebSocketMessage_errorResets(ev) ==
  LET errs == IF ev.hasData /\ ev.hasErrors THEN ev.errors ELSE errors IN
  /\ uploadProgress' = ev.progress
  /\ uploadStats' = IF ev.hasData THEN [created |-> ev.data.created, updated |-> ev.data.updated, skipped |-> ev.data.skipped, errors |-> StatsErrors(ev)] ELSE uploadStats
  /\ errors' = errs
  /\ isUploading' = IF ev.type \in {"complete", "error"} THEN FALSE ELSE isUploading
  /\ showPreview' = IF ev.type \in {"complete", "error"} THEN FALSE ELSE showPreview
  /\ showErrorDialog' = IF ev.type = "complete" /\ Len(errs) > 0 THEN TRUE ELSE showErrorDialog
  /\ closeTimers' = IF ev.type = "complete" THEN closeTimers + 1 ELSE closeTimers
  /\ ev.type = "complete" => closeTimers < MaxTimers
  /\ IF ev.type = "error" THEN showError("upload") ELSE UNCHANGED <<generalError, errorTimers>>
  /\ itemsRequested' = IF ev.type = "complete" THEN TRUE ELSE itemsRequested

\* handleWebSocketMessage(data)
handleWebSocketMessage(ev) ==
  LET errs == IF ev.hasData /\ ev.hasErrors THEN ev.errors ELSE errors IN
  /\ uploadProgress' = ev.progress
  /\ uploadStats' = IF ev.hasData THEN [created |-> ev.data.created, updated |-> ev.data.updated, skipped |-> ev.data.skipped, errors |-> StatsErrors(ev)] ELSE uploadStats
  /\ errors' = errs
  /\ isUploading' = IF ev.type \in {"complete", "error"} THEN FALSE ELSE isUploading
  /\ showPreview' = IF ev.type = "complete" THEN FALSE ELSE showPreview
  /\ showErrorDialog' = IF ev.type = "complete" /\ Len(errs) > 0 THEN TRUE ELSE showErrorDialog
  /\ closeTimers' = IF ev.type = "complete" THEN closeTimers + 1 ELSE closeTimers
  /\ ev.type = "complete" => closeTimers < MaxTimers
  /\ IF ev.type = "error" THEN showError("upload") ELSE UNCHANGED <<generalError, errorTimers>>
  /\ itemsRequested' = IF ev.type = "complete" THEN TRUE ELSE itemsRequested

\* the server applies the next row of the commit at the head of socket c, the
\* catalog write failing or not, and emits the progress event
serverProcessRow(c, fails) ==
  LET job == Head(jobs[c])
      row == job.rows[job.processed + 1]
      outcome == RowOutcome(row, job.duplicate_action, catalog, fails)
      next == [job EXCEPT !.processed = @ + 1, !.stats = ApplyRow(@, outcome), !.errors = IF outcome \in RowErrors THEN Append(@, RowMessage(row, outcome)) ELSE @] IN
  /\ conns[c] = "OPEN"
  /\ jobs[c] # <<>>
  /\ job.processed < Len(job.rows)
  /\ outcome = "created" => Len(catalog.entries) < MaxCatalog
  /\ catalog' = WriteCatalog(catalog, row, outcome)
  /\ jobs' = [jobs EXCEPT ![c] = <<next>> \o Tail(@)]
  /\ handleWebSocketMessage(ProgressEvent(next))
  /\ UNCHANGED <<ws, conns, retryTimers, reconnectTimers>>
  /\ UNCHANGED <<storeVars, fileVars, selectedDuplicateAction>>
  /\ UNCHANGED <<items, newItem, duplicateWarning, warningTimers, addReqs, destroyed>>

\* after the last row: exactly one complete event
serverComplete(c) ==
  /\ conns[c] = "OPEN"
  /\ jobs[c] # <<>>
  /\ Head(jobs[c]).processed = Len(Head(jobs[c]).rows)
  /\ jobs' = [jobs EXCEPT ![c] = Tail(@)]
  /\ handleWebSocketMessage(CompleteEvent(Head(jobs[c])))
  /\ UNCHANGED <<ws, conns, retryTimers, reconnectTimers, catalog>>
  /\ UNCHANGED <<storeVars, fileVars, selectedDuplicateAction>>
  /\ UNCHANGED <<items, newItem, duplicateWarning, warningTimers, addReqs, destroyed>>

\* the server gives up a commit whose rows are not all processed and answers
\* with an error event
serverError(c) ==
  /\ conns[c] = "OPEN"
  /\ jobs[c] # <<>>
  /\ Head(jobs[c]).processed < Len(Head(jobs[c]).rows)
  /\ jobs' = [jobs EXCEPT ![c] = Tail(@)]
  /\ handleWebSocketMessage(ErrorEvent)
  /\ UNCHANGED <<ws, conns, retryTimers, reconnectTimers, catalog>>
  /\ UNCHANGED <<storeVars, fileVars, selectedDuplicateAction>>
  /\ UNCHANGED <<items, newItem, duplicateWarning, warningTimers, addReqs, destroyed>>

\* the catalog entry with this id is deleted by someone else (another session,
\* a manual edit)
catalogDelete(id) ==
  /\ FindEntry(catalog, id) # 0
  /\ catalog' = [catalog EXCEPT !.entries = RemoveAt(@, FindEntry(catalog, id))]
  /\ UNCHANGED <<ws, conns, retryTimers, reconnectTimers, closeTimers, jobs>>
  /\ UNCHANGED <<storeVars, fileVars, uploadVars, showPreview, selectedDuplicateAction>>
  /\ UNCHANGED pageVars

\* the timer armed by the complete branch fires
closeTimerFires ==
  /\ closeTimers > 0
  /\ closeTimers' = closeTimers - 1
  /\ IF Len(errors) = 0
       THEN /\ showExcelModal' = FALSE
            /\ resetUploadState
       ELSE UNCHANGED <<storeVars, fileVars, uploadVars, showPreview, selectedDuplicateAction>>
  /\ UNCHANGED <<ws, conns, retryTimers, reconnectTimers, jobs, catalog>>
  /\ UNCHANGED pageVars

----------------------------------------------------------------------------
(* The product list and the form of the new product *)

FormNames == Names \cup {<<>>, Bolt}
FormDescriptions == {"", "d"}

\* the form writes the fields of newItem
editNewItem(name, description) ==
  /\ name \in FormNames
  /\ description \in FormDescriptions
  /\ newItem' = [name |-> name, description |-> description]
  /\ UNCHANGED <<items, itemsRequested, duplicateWarning, warningTimers, addReqs, destroyed>>
  /\ UNCHANGED <<storeVars, fileVars, uploadVars, chanVars, showPreview, selectedDuplicateAction>>

\* the find of addItem as it would be if the names were compared as typed
existingProduct_exact(list, name) == IF \E i \in 1..Len(list) : list[i].name = name THEN CHOOSE i \in 1..Len(list) : list[i].name = name ELSE 0

\* this.items.find(item => item.name.toLowerCase().trim() === nameToCheck): the
\* position of a loaded item with that name, 0 when undefined
existingProduct(list, name) == IF \E i \in 1..Len(list) : Trim(ToLowerCase(list[i].name)) = Trim(ToLowerCase(name)) THEN CHOOSE i \in 1..Len(list) : Trim(ToLowerCase(list[i].name)) = Trim(ToLowerCase(name)) ELSE 0

\* what addItem() does with this form and this list
addItemOutcome(form, list) == IF form.name = <<>> \/ form.description = "" THEN "ignored" ELSE IF existingProduct(list, form.name) # 0 THEN "warned" ELSE "requested"

\* addItem()
addItem ==
  /\ CASE addItemOutcome(newItem, items) = "ignored" ->
            UNCHANGED <<duplicateWarning, warningTimers, addReqs>>
       [] addItemOutcome(newItem, items) = "warned" ->
            /\ warningTimers < MaxTimers
            /\ duplicateWarning' = "exists"
            /\ warningTimers' = warningTimers + 1
            /\ UNCHANGED addReqs
       [] addItemOutcome(newItem, items) = "requested" ->
            /\ Len(addReqs) < MaxRequests
            /\ addReqs' = Append(addReqs, [name |-> newItem.name, stored |-> FALSE])
            /\ UNCHANGED <<duplicateWarning, warningTimers>>
  /\ UNCHANGED <<items, itemsRequested, newItem, destroyed>>
  /\ UNCHANGED <<storeVars, fileVars, uploadVars, chanVars, showPreview, selectedDuplicateAction>>

\* setTimeout(() => { this.duplicateWarning = '' }, 5000) fires
warningTimerFires ==
  /\ warningTimers > 0
  /\ warningTimers' = warningTimers - 1
  /\ duplicateWarning' = ""
  /\ UNCHANGED <<items, itemsRequested, newItem, addReqs, destroyed>>
  /\ UNCHANGED <<storeVars, fileVars, uploadVars, chanVars, showPreview, selectedDuplicateAction>>

\* the server stores the product of create request k
serverAddItem(k) ==
  /\ k \in 1..Len(addReqs)
  /\ ~addReqs[k].stored
  /\ Len(catalog.entries) < MaxCatalog
  /\ catalog' = [entries |-> Append(catalog.entries, [id |-> catalog.next_id, name |-> addReqs[k].name, price |-> 0]), next_id |-> catalog.next_id + 1]
  /\ addReqs' = [addReqs EXCEPT ![k].stored = TRUE]
  /\ UNCHANGED <<items, itemsRequested, newItem, duplicateWarning, warningTimers, destroyed>>
  /\ UNCHANGED <<ws, conns, retryTimers, reconnectTimers, closeTimers, jobs>>
  /\ UNCHANGED <<storeVars, fileVars, uploadVars, showPreview, selectedDuplicateAction>>

\* next: of api.addItem(...).subscribe
addItemResponse(k) ==
  /\ k \in 1..Len(addReqs)
  /\ addReqs[k].stored
  /\ addReqs' = RemoveAt(addReqs, k)
  /\ newItem' = EmptyItem
  /\ itemsRequested' = TRUE
  /\ UNCHANGED <<items, duplicateWarning, warningTimers, destroyed>>
  /\ UNCHANGED <<storeVars, fileVars, uploadVars, chanVars, showPreview, selectedDuplicateAction>>

\* error: of api.addItem(...).subscribe
addItemError(k) ==
  /\ k \in 1..Len(addReqs)
  /\ ~addReqs[k].stored
  /\ addReqs' = RemoveAt(addReqs, k)
  /\ UNCHANGED <<items, itemsRequested, newItem, duplicateWarning, warningTimers, destroyed>>
  /\ UNCHANGED <<storeVars, fileVars, uploadVars, chanVars, showPreview, selectedDuplicateAction>>

\* next: of api.getItems().subscribe in loadItems()
loadItemsResponse ==
  /\ itemsRequested
  /\ itemsRequested' = FALSE
  /\ items' = catalog.entries
  /\ UNCHANGED <<newItem, duplicateWarning, warningTimers, addReqs, destroyed>>
  /\ UNCHANGED <<storeVars, fileVars, uploadVars, chanVars, showPreview, selectedDuplicateAction>>

\* error: of api.getItems().subscribe in loadItems()
loadItemsError ==
  /\ itemsRequested
  /\ itemsRequested' = FALSE
  /\ items' = <<>>
  /\ UNCHANGED <<newItem, duplicateWarning, warningTimers, addReqs, destroyed>>
  /\ UNCHANGED <<storeVars, fileVars, uploadVars, chanVars, showPreview, selectedDuplicateAction>>

----------------------------------------------------------------------------
(* The end of the component *)

\* ngOnDestroy(): closeWebSocket()
ngOnDestroy ==
  /\ ~destroyed
  /\ destroyed' = TRUE
  /\ IF ws # 0
       THEN /\ conns' = [conns EXCEPT ![ws] = IF @ \in {"CONNECTING", "OPEN"} THEN "CLOSING" ELSE @]
            /\ ws' = 0
       ELSE UNCHANGED <<ws, conns>>
  /\ UNCHANGED <<retryTimers, reconnectTimers, closeTimers, jobs, catalog>>
  /\ UNCHANGED <<items, itemsRequested, newItem, duplicateWarning, warningTimers, addReqs>>
  /\ UNCHANGED <<storeVars, fileVars, uploadVars, showPreview, selectedDuplicateAction>>

----------------------------------------------------------------------------
(* The component after construction and ngOnInit *)

Init ==
  /\ showExcelModal = FALSE
  /\ selectedFile = 0
  /\ sheets = <<>>
  /\ selectedSheet = ""
  /\ showSheetSelector = FALSE
  /\ showPreview = FALSE
  /\ previewData = <<>>
  /\ originalPreviewData = <<>>
  /\ totalRows = 0
  /\ hasDuplicates = FALSE
  /\ duplicatesCount = 0
  /\ newProductsCount = 0
  /\ showDuplicatesModal = FALSE
  /\ selectedDuplicateAction = "skip"
  /\ editingRow = NoEdit
  /\ editingRowCopy = NoRow
  /\ isUploading = FALSE
  /\ uploadProgress = 0
  /\ uploadStats = ZeroStats
  /\ errors = <<>>
  /\ showErrorDialog = FALSE
  /\ generalError = ""
  /\ errorTimers = 0
  /\ ws = 1
  /\ conns = [c \in Conns |-> IF c = 1 THEN "CONNECTING" ELSE "NONE"]
  /\ retryTimers = 0
  /\ reconnectTimers = 0
  /\ closeTimers = 0
  /\ analyzeReqs = <<>>
  /\ previewReqs = <<>>
  /\ jobs = [c \in Conns |-> <<>>]
  /\ catalog = InitialCatalog
  /\ ListLoaded

\* every handler of the import session and every event it reacts to
Next ==
  \/ openExcelUploader
  \/ closeExcelModal
  \/ \E file \in FileInputs : onFileSelected(file)
  \/ \E k \in 1..Len(analyzeReqs) : \E s \in {"", "S1", "S2"} : analyzeResponse(k, s)
  \/ \E n \in {"S1", "S2"} : selectSheet(n)
  \/ \E k \in 1..Len(previewReqs) : previewResponse(k)
  \/ \E k \in 1..Len(previewReqs) : previewError(k)
  \/ \E i \in 1..Len(previewData) : startEdit(i)
  \/ \E v \in Names : editField("name", v)
  \/ \E v \in Prices : editField("price", v)
  \/ cancelEdit
  \/ saveEdit
  \/ \E row \in Range(previewData) \cup Range(originalPreviewData) : deleteRow(row)
  \/ \E a \in DuplicateActions : selectDuplicateAction(a)
  \/ closeDuplicatesModal
  \/ cancelPreview
  \/ confirmUpload
  \/ retryTimerFires
  \/ \E c \in Conns : socketOpen(c)
  \/ \E c \in Conns : socketClose(c)
  \/ reconnectTimerFires
  \/ \E c \in Conns : \E fails \in BOOLEAN : serverProcessRow(c, fails)
  \/ \E c \in Conns : serverComplete(c)
  \/ \E c \in Conns : serverError(c)
  \/ \E id \in 1..MaxCatalog : catalogDelete(id)
  \/ closeTimerFires
  \/ errorTimerFires
  \/ \E n \in FormNames : \E d \in FormDescriptions : editNewItem(n, d)
  \/ addItem
  \/ warningTimerFires
  \/ \E k \in 1..Len(addReqs) : serverAddItem(k)
  \/ \E k \in 1..Len(addReqs) : addItemResponse(k)
  \/ \E k \in 1..Len(addReqs) : addItemError(k)
  \/ loadItemsResponse
  \/ loadItemsError
  \/ ngOnDestroy

Spec == Init /\ [][Next]_vars

----------------------------------------------------------------------------
(* The Preview Store on its own: a preview of any sheet of at most MaxRows *)
(* rows has just been installed, and the operator edits, deletes, cancels  *)
(* and resets.  Channel and server stand still.                            *)

\* the state in which loadPreviewWithDuplicates' next: leaves the component, for
\* file f whose sheet S1 holds raw, the socket made by ngOnInit being in state sock
PreviewInstalled(f, raw, sock) ==
  /\ showExcelModal = TRUE
  /\ selectedFile = f
  /\ sheets = WorkbookSheets(f)
  /\ selectedSheet = "S1"
  /\ showSheetSelector = FALSE
  /\ showPreview = TRUE
  /\ previewData = PreviewResponseData(raw).preview_rows
  /\ originalPreviewData = PreviewResponseData(raw).preview_rows
  /\ totalRows = PreviewResponseData(raw).total_rows
  /\ hasDuplicates = PreviewResponseData(raw).has_duplicates
  /\ duplicatesCount = PreviewResponseData(raw).duplicates_found
  /\ newProductsCount = PreviewResponseData(raw).new_products
  /\ showDuplicatesModal = PreviewResponseData(raw).has_duplicates
  /\ selectedDuplicateAction = "skip"
  /\ editingRow = NoEdit
  /\ editingRowCopy = NoRow
  /\ isUploading = FALSE
  /\ uploadProgress = 0
  /\ uploadStats = ZeroStats
  /\ errors = <<>>
  /\ showErrorDialog = FALSE
  /\ generalError = ""
  /\ errorTimers = 0
  /\ ws = 1
  /\ conns = [c \in Conns |-> IF c = 1 THEN sock ELSE "NONE"]
  /\ retryTimers = 0
  /\ reconnectTimers = 0
  /\ closeTimers = 0
  /\ analyzeReqs = <<>>
  /\ previewReqs = <<>>
  /\ jobs = [c \in Conns |-> <<>>]
  /\ catalog = InitialCatalog
  /\ ListLoaded

InitStore == \E f \in Files : \E raw \in RawSheets : PreviewInstalled(f, raw, "OPEN")

NextStore ==
  \/ \E i \in 1..Len(previewData) : startEdit(i)
  \/ \E v \in Names : editField("name", v)
  \/ \E v \in Prices : editField("price", v)
  \/ cancelEdit
  \/ saveEdit
  \/ \E row \in Range(previewData) \cup Range(originalPreviewData) : deleteRow(row)
  \/ closeDuplicatesModal
  \/ cancelPreview
  \/ openExcelUploader
  \/ closeExcelModal

SpecStore == InitStore /\ [][NextStore]_vars

----------------------------------------------------------------------------
(* The commit on its own: the preview of a file's first sheet is shown and *)
(* the socket made by ngOnInit is still connecting.  The operator confirms *)
(* (the Confirm button belongs to the preview panel), cancels the preview, *)
(* opens and closes the modal; sockets open and close, timers fire, the    *)
(* server works through the commits.  Rows are not edited here.            *)

InitCommit == \E f \in Files : PreviewInstalled(f, SheetRows(f, "S1"), "CONNECTING")

NextCommit ==
  \/ showPreview /\ confirmUpload
  \/ retryTimerFires
  \/ cancelPreview
  \/ openExcelUploader
  \/ closeExcelModal
  \/ \E c \in Conns : socketOpen(c)
  \/ \E c \in Conns : socketClose(c)
  \/ reconnectTimerFires
  \/ \E c \in Conns : serverProcessRow(c, FALSE)
  \/ \E c \in Conns : serverComplete(c)
  \/ \E c \in Conns : serverError(c)
  \/ closeTimerFires
  \/ errorTimerFires

SpecCommit == InitCommit /\ [][NextCommit]_vars

\* what happens by itself: every timer armed fires, a connecting socket opens,
\* the server works on the commits it has received.  The operator and the
\* loss of a socket are under no obligation.
Scheduling ==
  /\ WF_vars(retryTimerFires)
  /\ WF_vars(reconnectTimerFires)
  /\ WF_vars(closeTimerFires)
  /\ WF_vars(errorTimerFires)
  /\ WF_vars(\E c \in Conns : socketOpen(c))
  /\ WF_vars(\E c \in Conns : serverProcessRow(c, FALSE))
  /\ WF_vars(\E c \in Conns : serverComplete(c))

\* Losing the channel during a commit: the operator confirms while no commit
\* is in flight and then waits; the socket the component refers to may close
\* while a commit is in flight.
NextLoss ==
  \/ (showPreview /\ ~isUploading) /\ confirmUpload
  \/ retryTimerFires
  \/ \E c \in Conns : socketOpen(c)
  \/ isUploading /\ ws # 0 /\ socketClose(ws)
  \/ reconnectTimerFires
  \/ \E c \in Conns : serverProcessRow(c, FALSE)
  \/ \E c \in Conns : serverComplete(c)
  \/ \E c \in Conns : serverError(c)
  \/ closeTimerFires
  \/ errorTimerFires

SpecLoss == InitCommit /\ [][NextLoss]_vars /\ Scheduling

----------------------------------------------------------------------------
(* Sending the staged rows: the preview of any sheet of at most MaxRows    *)
(* rows is shown over an open socket; the operator edits and deletes rows  *)
(* and chooses the duplicate action while no commit is in flight, and      *)
(* confirms at any time.  The server stands still.                         *)

NextSend ==
  \/ ~isUploading /\ \E i \in 1..Len(previewData) : startEdit(i)
  \/ ~isUploading /\ \E v \in Names : editField("name", v)
  \/ ~isUploading /\ \E v \in Prices : editField("price", v)
  \/ ~isUploading /\ cancelEdit
  \/ ~isUploading /\ saveEdit
  \/ ~isUploading /\ \E row \in Range(previewData) : deleteRow(row)
  \/ ~isUploading /\ \E a \in DuplicateActions : selectDuplicateAction(a)
  \/ confirmUpload

SpecSend == InitStore /\ [][NextSend]_vars

----------------------------------------------------------------------------
(* Choosing a file and a sheet: the modal has just been opened; the        *)
(* operator hands files to the file input and picks sheets, the server     *)
(* answers the analyze and preview requests, the message timers fire.      *)

\* the component after ngOnInit and openExcelUploader()
InitFile ==
  /\ showExcelModal = TRUE
  /\ selectedFile = 0
  /\ sheets = <<>>
  /\ selectedSheet = ""
  /\ showSheetSelector = FALSE
  /\ showPreview = FALSE
  /\ previewData = <<>>
  /\ originalPreviewData = <<>>
  /\ totalRows = 0
  /\ hasDuplicates = FALSE
  /\ duplicatesCount = 0
  /\ newProductsCount = 0
  /\ showDuplicatesModal = FALSE
  /\ selectedDuplicateAction = "skip"
  /\ editingRow = NoEdit
  /\ editingRowCopy = NoRow
  /\ isUploading = FALSE
  /\ uploadProgress = 0
  /\ uploadStats = ZeroStats
  /\ errors = <<>>
  /\ showErrorDialog = FALSE
  /\ generalError = ""
  /\ errorTimers = 0
  /\ ws = 1
  /\ conns = [c \in Conns |-> IF c = 1 THEN "OPEN" ELSE "NONE"]
  /\ retryTimers = 0
  /\ reconnectTimers = 0
  /\ closeTimers = 0
  /\ analyzeReqs = <<>>
  /\ previewReqs = <<>>
  /\ jobs = [c \in Conns |-> <<>>]
  /\ catalog = InitialCatalog
  /\ ListLoaded

NextFile ==
  \/ \E file \in FileInputs : onFileSelected(file)
  \/ \E k \in 1..Len(analyzeReqs) : \E s \in {"", "S1", "S2"} : analyzeResponse(k, s)
  \/ \E n \in {"S1", "S2"} : selectSheet(n)
  \/ \E k \in 1..Len(previewReqs) : previewResponse(k)
  \/ \E k \in 1..Len(previewReqs) : previewError(k)
  \/ cancelPreview
  \/ errorTimerFires

SpecFile == InitFile /\ [][NextFile]_vars

----------------------------------------------------------------------------
(* The Import Orchestrator at work: the preview of any sheet of at most    *)
(* MaxRows rows is shown over an open socket.  The operator deletes rows   *)
(* and chooses the duplicate action, then confirms once; the server applies *)
(* the rows one at a time, any catalog write failing or not, while someone *)
(* else may delete catalog entries.                                        *)

InitOrch == \E raw \in RawSheets : PreviewInstalled(1, raw, "OPEN")

\* the steps of the server on the commit at the head of a socket
ServerWorks ==
  \/ \E c \in Conns : \E fails \in BOOLEAN : serverProcessRow(c, fails)
  \/ \E c \in Conns : serverComplete(c)

NextOrchRun ==
  \/ (showPreview /\ ~isUploading) /\ \E row \in Range(previewData) : deleteRow(row)
  \/ (showPreview /\ ~isUploading) /\ \E a \in DuplicateActions : selectDuplicateAction(a)
  \/ (showPreview /\ ~isUploading) /\ confirmUpload
  \/ ServerWorks
  \/ \E id \in 1..MaxCatalog : catalogDelete(id)
  \/ closeTimerFires

NextOrch ==
  \/ NextOrchRun
  \/ \E c \in Conns : serverError(c)
  \/ errorTimerFires

SpecOrch == InitOrch /\ [][NextOrch]_vars

\* the server never gives a commit up and keeps working on it
SpecOrchRun == InitOrch /\ [][NextOrchRun]_vars /\ WF_vars(ServerWorks)

----------------------------------------------------------------------------
(* Sessions one after another: the preview of a workbook is shown over an  *)
(* open socket.  The operator confirms when no commit is in flight; the    *)
(* server applies the rows and completes; the operator hands further       *)
(* workbooks to the file input while no commit is in flight.               *)

InitSession == \E f \in Files : PreviewInstalled(f, SheetRows(f, "S1"), "OPEN")

NextSession ==
  \/ (showPreview /\ ~isUploading) /\ confirmUpload
  \/ \E c \in Conns : serverProcessRow(c, FALSE)
  \/ \E c \in Conns : serverComplete(c)
  \/ closeTimerFires
  \/ \E file \in FileInputs : (~isUploading /\ ~BadExtension(file) /\ ~TooLarge(file)) /\ onFileSelected(file)
  \/ \E k \in 1..Len(analyzeReqs) : analyzeResponse(k, "")
  \/ selectSheet("S1")
  \/ \E k \in 1..Len(previewReqs) : previewResponse(k)

SpecSession == InitSession /\ [][NextSession]_vars

----------------------------------------------------------------------------
(* The product form: the list is loaded; the operator types into the form  *)
(* and adds products, the server answers.                                  *)

NextList ==
  \/ \E n \in FormNames : \E d \in FormDescriptions : editNewItem(n, d)
  \/ addItem
  \/ warningTimerFires
  \/ \E k \in 1..Len(addReqs) : serverAddItem(k)
  \/ \E k \in 1..Len(addReqs) : addItemResponse(k)
  \/ \E k \in 1..Len(addReqs) : addItemError(k)
  \/ loadItemsResponse
  \/ loadItemsError

SpecList == Init /\ [][NextList]_vars

----------------------------------------------------------------------------
(* Leaving the page: as under SpecCommit, and the component is destroyed   *)
(* at any moment; the operator acts only on the living component.          *)

NextDestroy ==
  \/ (~destroyed /\ showPreview) /\ confirmUpload
  \/ retryTimerFires
  \/ \E c \in Conns : socketOpen(c)
  \/ \E c \in Conns : socketClose(c)
  \/ reconnectTimerFires
  \/ \E c \in Conns : serverProcessRow(c, FALSE)
  \/ \E c \in Conns : serverComplete(c)
  \/ closeTimerFires
  \/ errorTimerFires
  \/ ngOnDestroy

SpecDestroy == InitCommit /\ [][NextDestroy]_vars

----------------------------------------------------------------------------
(* Properties of the Preview Store, checked under SpecStore *)

HasTempId(rows, tid) == \E i \in 1..Len(rows) : rows[i].temp_id = tid

RowArgs == Range(previewData) \cup Range(originalPreviewData)

\* row is the only row of previewData with status 'duplicate'
LastDuplicate(row) ==
  /\ row.status = "duplicate"
  /\ \A i \in 1..Len(previewData) : previewData[i].status = "duplicate" => previewData[i].temp_id = row.temp_id

DeleteRowEffect(row) ==
  IF HasTempId(previewData, row.temp_id)
    THEN /\ \E i \in 1..Len(previewData) :
              /\ previewData[i].temp_id = row.temp_id
              /\ previewData' = RemoveAt(previewData, i)
         /\ totalRows' = totalRows - 1
         /\ (LastDuplicate(row) => hasDuplicates' = FALSE)
    ELSE UNCHANGED vars

\* C2: deleteRow of a row whose temp_id is staged removes exactly that row (the
\* others and their order unchanged), takes 1 off totalRows and, when the row was
\* the last duplicate, leaves hasDuplicates false; deleteRow of a temp_id that is
\* not staged changes nothing.
C2_DeleteRow == [][\A row \in RowArgs : deleteRow(row) => DeleteRowEffect(row)]_vars

\* the last duplicate has been deleted from a preview that keeps other rows
C2_Witness ==
  /\ showPreview
  /\ ~hasDuplicates
  /\ previewData # <<>>
  /\ totalRows = Len(originalPreviewData) - 1
  /\ \E j \in 1..Len(originalPreviewData) :
       /\ originalPreviewData[j].status = "duplicate"
       /\ ~HasTempId(previewData, originalPreviewData[j].temp_id)

\* C3: while the preview is shown the summary stays consistent with the staged
\* rows (totalRows, duplicatesCount, newProductsCount, hasDuplicates), and no
\* counter is ever negative.
C3_SummaryConsistent ==
  /\ totalRows >= 0
  /\ duplicatesCount >= 0
  /\ newProductsCount >= 0
  /\ showPreview =>
       /\ totalRows = Len(previewData)
       /\ duplicatesCount = CountStatus(previewData, "duplicate")
       /\ newProductsCount = CountStatus(previewData, "new")
       /\ (hasDuplicates <=> duplicatesCount > 0)

\* a 'new' row has been deleted and another row carries a saved edit
C3_Witness ==
  /\ showPreview
  /\ editingRow = NoEdit
  /\ newProductsCount < CountStatus(originalPreviewData, "new")
  /\ \E i \in 1..Len(previewData) : \E j \in 1..Len(originalPreviewData) :
       /\ previewData[i].temp_id = originalPreviewData[j].temp_id
       /\ previewData[i].name # originalPreviewData[j].name

StartEditKeeps ==
  \A i \in 1..Len(previewData) : startEdit(i) =>
    /\ editingRowCopy' = previewData[i]
    /\ previewData' = previewData

EditTouchesOneRow ==
  \A f \in {"name", "price"} : \A v \in (IF f = "name" THEN Names ELSE Prices) : editField(f, v) =>
    /\ editingRowCopy' = editingRowCopy
    /\ editingRow' = editingRow
    /\ \A j \in 1..Len(previewData) : j # editingRow.idx => previewData'[j] = previewData[j]

CancelPutsBack ==
  (cancelEdit /\ editingRow.kind = "list") =>
    /\ previewData' = [previewData EXCEPT ![editingRow.idx] = editingRowCopy]
    /\ editingRow' = NoEdit
    /\ editingRowCopy' = NoRow

\* C4: startEdit keeps the row's values of that moment, field edits touch only
\* the row under edit and not the kept values, and cancelEdit puts every field
\* of the row back to the kept values, leaves the other rows alone and leaves no
\* row under edit.
C4_CancelRestores == [][StartEditKeeps /\ EditTouchesOneRow /\ CancelPutsBack]_vars

\* a row under edit has been modified: cancelEdit has something to put back
C4_Witness ==
  /\ editingRow.kind = "list"
  /\ Len(previewData) > 1
  /\ previewData[editingRow.idx] # editingRowCopy

SaveEditEffect ==
  /\ previewData' = previewData
  /\ totalRows' = totalRows
  /\ duplicatesCount' = duplicatesCount
  /\ newProductsCount' = newProductsCount
  /\ hasDuplicates' = hasDuplicates
  /\ editingRow' = NoEdit
  /\ editingRowCopy' = NoRow

\* C5: saveEdit keeps the staged rows as edited (no reclassification), leaves
\* the counters alone and leaves no row under edit.
C5_SaveEditFrame == [][saveEdit => SaveEditEffect]_vars

\* no row is under edit and a row keeps an edited name with the status it had
C5_Witness ==
  /\ showPreview
  /\ editingRow = NoEdit
  /\ \E i \in 1..Len(previewData) : \E j \in 1..Len(originalPreviewData) :
       /\ previewData[i].temp_id = originalPreviewData[j].temp_id
       /\ previewData[i].name # originalPreviewData[j].name
       /\ previewData[i].status = originalPreviewData[j].status
       /\ previewData[i].status # Classify(previewData[i].name, previewData[i].price)

\* the status and existing_id of a row agree with its name
AgreesWithName(r) ==
  /\ r.existing_id = FindByNormalizedName(r.name)
  /\ r.status = "duplicate" => FindByNormalizedName(r.name) # 0
  /\ r.status = "new" => FindByNormalizedName(r.name) = 0

\* C6: after saveEdit the row that was under edit has the status and
\* existing_id that its (possibly changed) name calls for.
C6_StatusFollowsName == [][(saveEdit /\ editingRow.kind = "list") => AgreesWithName(previewData'[editingRow.idx])]_vars

\* C7: resetting (resetUploadState, run by openExcelUploader and closeExcelModal)
\* puts the staged rows back to the snapshot taken when the preview was built.
C7_ResetRestoresSnapshot == [][(openExcelUploader \/ closeExcelModal) => previewData' = originalPreviewData]_vars

TempIdsDistinct == \A i, j \in 1..Len(previewData) : i # j => previewData[i].temp_id # previewData[j].temp_id

\* a step keeps every row in place with its temp_id, or takes whole rows out
KeepsTempIds ==
  \/ /\ Len(previewData') = Len(previewData)
     /\ \A i \in 1..Len(previewData) : previewData'[i].temp_id = previewData[i].temp_id
  \/ \E k \in 1..Len(previewData) : previewData' = RemoveAt(previewData, k)
  \/ previewData' = <<>>

\* C8: the temp_ids of the staged rows are pairwise distinct in every state, and
\* no step changes the temp_id of a row that stays.
C8_TempIdsStable == []TempIdsDistinct /\ [][KeepsTempIds]_vars

\* the first row has been deleted after an edit, the second keeps its temp_id
C8_Witness ==
  /\ showPreview
  /\ Len(previewData) = 1
  /\ Len(originalPreviewData) = 2
  /\ previewData[1].temp_id = 2
  /\ previewData[1].name # originalPreviewData[2].name

----------------------------------------------------------------------------
(* Properties of the commit command *)

\* a start_upload command is sent in this step
Sends == JobCount' > JobCount

\* C1: while a commit is in flight (isUploading is true) no further
\* start_upload command is sent, whoever calls confirmUpload.
C1_OneCommitInFlight == [][isUploading => ~Sends]_vars

SentCommand(c) == jobs'[c][Len(jobs'[c])]

\* C9: every start_upload command sent bears the staged rows as they stand at
\* that moment (all of them, edited values included, in order, no deleted row)
\* and a duplicate action among skip, update, create_new.
C9_CommandBearsStagedRows ==
  [][Sends => \E c \in Conns :
       /\ Len(jobs'[c]) = Len(jobs[c]) + 1
       /\ SentCommand(c).rows = previewData
       /\ Len(SentCommand(c).rows) = totalRows
       /\ SentCommand(c).duplicate_action = selectedDuplicateAction
       /\ SentCommand(c).duplicate_action \in DuplicateActions]_vars

\* a command is in flight that bears fewer rows than the preview had, one of
\* them with an edited name, under the action update
C9_Witness ==
  \E c \in Conns :
    /\ jobs[c] # <<>>
    /\ jobs[c][1].duplicate_action = "update"
    /\ jobs[c][1].rows # <<>>
    /\ Len(jobs[c][1].rows) < Len(originalPreviewData)
    /\ \E i \in 1..Len(jobs[c][1].rows) : \E j \in 1..Len(originalPreviewData) :
         /\ jobs[c][1].rows[i].temp_id = originalPreviewData[j].temp_id
         /\ jobs[c][1].rows[i].name # originalPreviewData[j].name

\* C10: a start_upload command is sent only while the preview is shown, never
\* after cancelPreview or resetUploadState.
C10_SendOnlyWithPreview == [][Sends => showPreview]_vars

----------------------------------------------------------------------------
(* Properties of file and sheet selection, checked under SpecFile *)

\* the name ends in .xls or .xlsx, whatever the case of its letters
EndsInExcelExtension(name) ==
  \E e \in validExtensions :
    /\ Len(name) >= Len(e)
    /\ ToLowerCase(SubSeq(name, Len(name) - Len(e) + 1, Len(name))) = e

Acceptable(file) ==
  /\ EndsInExcelExtension(file.name)
  /\ file.size <= maxSize

RejectionLeavesSession(file) ==
  /\ analyzeReqs' = analyzeReqs
  /\ previewReqs' = previewReqs
  /\ UNCHANGED <<selectedFile, sheets, selectedSheet>>
  /\ UNCHANGED <<previewData, originalPreviewData, totalRows, hasDuplicates, duplicatesCount, newProductsCount>>

AcceptanceStartsAnalysis(file) ==
  /\ selectedFile' = file.book
  /\ analyzeReqs' = Append(analyzeReqs, file.book)

\* C11: onFileSelected on a file whose extension is not xls or xlsx (case
\* ignored) or whose size exceeds 10 MiB issues no analyze request and leaves
\* the selected file, the sheets, the selected sheet, the staged rows and the
\* counters as they were; a file of at most 10 MiB (10 MiB included) with such
\* an extension is accepted and analysed.
C11_ValidationFailsFast ==
  [][\A file \in FileInputs :
       onFileSelected(file) =>
         IF Acceptable(file) THEN AcceptanceStartsAnalysis(file) ELSE RejectionLeavesSession(file)]_vars

\* a file was refused while a preview of an earlier file is shown, and the
\* preview is still there
C11_Witness ==
  /\ generalError \in {"format", "size"}
  /\ selectedFile # 0
  /\ showPreview
  /\ previewData # <<>>
  /\ previewData = originalPreviewData
  /\ analyzeReqs = <<>>

SheetInvalid(list, name) == \E i \in 1..Len(list) : list[i].name = name /\ ~list[i].is_valid

\* C12: whichever way a sheet is chosen (selectSheet, the only sheet of a
\* workbook, the sheet the server suggests), no preview request is issued and
\* selectedSheet is not set for a sheet whose metadata says is_valid = false.
C12_InvalidSheetNeverChosen ==
  [][(selectedSheet' # selectedSheet \/ Len(previewReqs') > Len(previewReqs)) =>
       ~SheetInvalid(sheets', selectedSheet')]_vars

----------------------------------------------------------------------------
(* Properties of the progress shown, checked under SpecCommit *)

\* a complete event is handled in this step
CompleteHandled == closeTimers' > closeTimers

\* C13: while a commit is in flight the percentage shown stays within 0..100
\* and never decreases, and it is 100 once the complete event is handled.
C13_ProgressNonDecreasing ==
  [][/\ uploadProgress' \in 0..100
     /\ (isUploading /\ isUploading') => uploadProgress' >= uploadProgress
     /\ CompleteHandled => uploadProgress' = 100]_vars

----------------------------------------------------------------------------
(* Properties of the commit loop, checked under SpecOrch *)

\* the server has applied one more row of the commit at the head of socket c
RowStep(c) ==
  /\ jobs[c] # <<>>
  /\ jobs'[c] # <<>>
  /\ Head(jobs'[c]).processed = Head(jobs[c]).processed + 1

\* the commit at the head of socket c has ended with this step
EndStep(c) == jobs[c] # <<>> /\ jobs'[c] = Tail(jobs[c])

Total(stats) == stats.created + stats.updated + stats.skipped + stats.errors_count

\* C14: the terminal summary of a commit adds up to the number of rows
\* processed, which is the number of rows the start_upload command carried
\* (the rows left in the preview; deleted rows are not counted).
C14_SummaryAddsUp ==
  [][\A c \in Conns :
       /\ RowStep(c) => Total(Head(jobs'[c]).stats) = Head(jobs'[c]).processed
       /\ (EndStep(c) /\ CompleteHandled) =>
            /\ Total(Head(jobs[c]).stats) = Head(jobs[c]).processed
            /\ Head(jobs[c]).processed = Len(Head(jobs[c]).rows)
            /\ Len(Head(jobs[c]).rows) = Len(previewData)
            /\ uploadStats'.created + uploadStats'.updated + uploadStats'.skipped + Len(errors') = Len(previewData)]_vars

\* a commit of one row has ended with a summary of one, a row of the preview
\* having been deleted before
C14_Witness ==
  /\ ~isUploading
  /\ uploadProgress = 100
  /\ Len(originalPreviewData) = 2
  /\ Len(previewData) = 1
  /\ uploadStats.created + uploadStats.updated + uploadStats.skipped + Len(errors) = 1

\* C15: after an event that carries stats is handled, uploadStats.created,
\* updated, skipped and errors are numbers equal to the event's counts (errors
\* is the number 0 when the event's error count is 0), and the error list
\* shown is the event's list.
C15_StatsShownAreEventStats ==
  [][\A c \in Conns :
       (EndStep(c) /\ CompleteHandled) =>
         /\ uploadStats'.created = Head(jobs[c]).stats.created
         /\ uploadStats'.updated = Head(jobs[c]).stats.updated
         /\ uploadStats'.skipped = Head(jobs[c]).stats.skipped
         /\ uploadStats'.errors = Num(Head(jobs[c]).stats.errors_count)
         /\ errors' = Head(jobs[c]).errors]_vars

NoEntry == [id |-> 0, name |-> <<>>, price |-> 0]

EntryOf(cat, id) == IF FindEntry(cat, id) = 0 THEN NoEntry ELSE cat.entries[FindEntry(cat, id)]

NextRow(c) == Head(jobs[c]).rows[Head(jobs[c]).processed + 1]

\* C16: under the action skip, no step of a commit writes the catalog entry of
\* any of its duplicate rows, and each duplicate row is counted under skipped.
C16_SkipLeavesDuplicates ==
  [][\A c \in Conns :
       (RowStep(c) /\ Head(jobs[c]).duplicate_action = "skip") =>
         /\ \A i \in 1..Len(Head(jobs[c]).rows) :
              Head(jobs[c]).rows[i].status = "duplicate" =>
                EntryOf(catalog', Head(jobs[c]).rows[i].existing_id) = EntryOf(catalog, Head(jobs[c]).rows[i].existing_id)
         /\ NextRow(c).status = "duplicate" =>
              /\ Head(jobs'[c]).stats = [Head(jobs[c]).stats EXCEPT !.skipped = @ + 1]
              /\ catalog' = catalog]_vars

\* a commit under skip has ended: its duplicate row was skipped, its new row
\* created, and the duplicate's catalog entry is what it was
C16_Witness ==
  /\ ~isUploading
  /\ uploadProgress = 100
  /\ selectedDuplicateAction = "skip"
  /\ uploadStats.skipped = 1
  /\ uploadStats.created = 1
  /\ EntryOf(catalog, 1) = Catalog[1]
  /\ Len(catalog.entries) = 2

\* C17: a commit whose rows are all processed ends with a complete event and
\* in no other way, that event comes after the last row and is the last of the
\* commit, and it carries the final aggregates and the whole list of row
\* messages.
C17_OneCompleteEvent ==
  [][\A c \in Conns :
       /\ (EndStep(c) /\ Head(jobs[c]).processed = Len(Head(jobs[c]).rows)) => CompleteHandled
       /\ (EndStep(c) /\ CompleteHandled) =>
            /\ Head(jobs[c]).processed = Len(Head(jobs[c]).rows)
            /\ uploadProgress' = 100
            /\ ~isUploading'
            /\ uploadStats'.created = Head(jobs[c]).stats.created
            /\ uploadStats'.updated = Head(jobs[c]).stats.updated
            /\ uploadStats'.skipped = Head(jobs[c]).stats.skipped
            /\ errors' = Head(jobs[c]).errors
            /\ Len(errors') = Head(jobs[c]).stats.errors_count
            /\ Head(jobs[c]) \notin Range(jobs'[c])]_vars

\* a commit of two rows has ended with its complete event, one row in error
C17_Witness ==
  /\ ~isUploading
  /\ uploadProgress = 100
  /\ JobCount = 0
  /\ Len(previewData) = 2
  /\ Len(errors) = 1
  /\ showErrorDialog

LastOf(seq) == seq[Len(seq)]

\* the write of the next row of the commit on socket c is one that can fail
NeedsWrite(c) ==
  /\ NextRow(c).status # "error"
  /\ ~(NextRow(c).status = "duplicate" /\ Head(jobs[c]).duplicate_action = "skip")
  /\ ~(NextRow(c).status = "duplicate" /\ Head(jobs[c]).duplicate_action = "update" /\ FindEntry(catalog, NextRow(c).existing_id) = 0)

\* the step counts the row as an error with this message, writes nothing and
\* leaves the commit running
CountedAsError(c, message) ==
  /\ RowStep(c)
  /\ Head(jobs'[c]).stats = [Head(jobs[c]).stats EXCEPT !.errors_count = @ + 1]
  /\ Head(jobs'[c]).errors = Append(Head(jobs[c]).errors, [temp_id |-> NextRow(c).temp_id, error |-> message])
  /\ catalog' = catalog
  /\ isUploading' = isUploading
  /\ Head(jobs'[c]).rows = Head(jobs[c]).rows

\* every row is handled by its own status and the duplicate action, whatever
\* happened to the rows before it
HandledByStatus(c) ==
  \/ NextRow(c).status = "error" /\ CountedAsError(c, "RowCoercionError")
  \/ NeedsWrite(c) /\ CountedAsError(c, "PersistenceError")
  \/ NextRow(c).status = "new" /\ Head(jobs'[c]).stats = [Head(jobs[c]).stats EXCEPT !.created = @ + 1]
  \/ NextRow(c).status = "duplicate" /\ Head(jobs'[c]).stats \in {[Head(jobs[c]).stats EXCEPT ![k] = @ + 1] : k \in {"created", "updated", "skipped"}}
  \/ NextRow(c).status = "duplicate" /\ CountedAsError(c, "DuplicateTargetMissingError")

FailureRecorded == \E c \in Conns : jobs[c] # <<>> /\ \E i \in 1..Len(Head(jobs[c]).errors) : Head(jobs[c]).errors[i].error = "PersistenceError"

FailureReported == ~isUploading /\ uploadProgress = 100 /\ \E i \in 1..Len(errors) : errors[i].error = "PersistenceError"

\* C18: a catalog write that fails makes its row an error with a recorded
\* message and nothing more: the commit goes on, every row is handled by its
\* status and the duplicate action, and the commit ends with a complete event
\* that reports the failure.
C18_FailureDoesNotAbort ==
  /\ [][\A c \in Conns :
          /\ (serverProcessRow(c, TRUE) /\ NeedsWrite(c)) => CountedAsError(c, "PersistenceError")
          /\ RowStep(c) => HandledByStatus(c)]_vars
  /\ (FailureRecorded ~> FailureReported)

\* the write of the first row failed, the second row was created all the same
\* and the complete event reported both
C18_Witness ==
  /\ FailureReported
  /\ Len(errors) = 1
  /\ errors[1].temp_id = 1
  /\ uploadStats.created = 1
  /\ Len(catalog.entries) = 2

\* the next row of the commit on socket c is a duplicate to update whose
\* catalog entry is gone
StaleTarget(c) ==
  /\ NextRow(c).status = "duplicate"
  /\ Head(jobs[c]).duplicate_action = "update"
  /\ FindEntry(catalog, NextRow(c).existing_id) = 0

\* C19: under the action update, a duplicate row whose catalog entry has been
\* deleted since classification is counted as an error with a
\* DuplicateTargetMissingError message, no catalog entry is created or
\* modified for it, and the commit continues.
C19_StaleTargetIsRowError ==
  [][\A c \in Conns : (RowStep(c) /\ StaleTarget(c)) => CountedAsError(c, "DuplicateTargetMissingError")]_vars

\* a commit under update has ended: its first row, a duplicate whose entry was
\* deleted, is reported as an error and its second row was created
C19_Witness ==
  /\ ~isUploading
  /\ uploadProgress = 100
  /\ selectedDuplicateAction = "update"
  /\ Len(errors) = 1
  /\ errors[1] = [temp_id |-> 1, error |-> "DuplicateTargetMissingError"]
  /\ uploadStats.created = 1
  /\ FindEntry(catalog, 1) = 0
  /\ Len(catalog.entries) = 1

----------------------------------------------------------------------------
(* Loss of the channel, checked under SpecLoss *)

\* the socket the component refers to has closed while a commit is in flight
ChannelLost == isUploading /\ ws # 0 /\ conns[ws] = "CLOSED"

\* C20: when the socket closes during a commit, the client eventually leaves
\* the uploading state with an error shown, and the channel is eventually
\* open again.
C20_ChannelLossSurfaced ==
  /\ ChannelLost ~> (~isUploading /\ (generalError # "" \/ showErrorDialog))
  /\ ChannelLost ~> (ws # 0 /\ conns[ws] = "OPEN")

\* a commit was cut off by the loss of its socket and the client has not left
\* the uploading state since: the operator, who confirms only while no upload
\* is shown as running, has not confirmed again
Interrupted == isUploading /\ JobCount = 0

\* C21: after a commit is interrupted by the loss of the channel, no
\* start_upload command is sent on a later connection unless the operator
\* confirms anew.
C21_NoReplayAfterReconnect == [][Interrupted => ~Sends]_vars

----------------------------------------------------------------------------
(* Properties of the connections, checked under SpecCommit *)

Live(c) == conns[c] \in {"CONNECTING", "OPEN"}

\* C28: at most one connection made by the component is connecting or open,
\* and it is the one ws refers to.
C28_OneLiveConnection == \A c \in Conns : Live(c) => c = ws

----------------------------------------------------------------------------
(* More properties of the Preview Store, checked under SpecStore *)

\* the row that is under edit before the step is in the list after it, at
\* position j, and is no longer under edit
LeavesEdit(j) ==
  /\ editingRow.kind = "list"
  /\ j \in 1..Len(previewData')
  /\ previewData'[j].temp_id = previewData[editingRow.idx].temp_id
  /\ ~(editingRow'.kind = "list" /\ editingRow'.idx = j)

\* the row at position i, not under edit before the step, is at position j after it
StaysOutOfEdit(i, j) ==
  /\ i \in 1..Len(previewData)
  /\ ~(editingRow.kind = "list" /\ editingRow.idx = i)
  /\ j \in 1..Len(previewData')
  /\ previewData'[j].temp_id = previewData[i].temp_id

\* C26: a row that is not under edit is never modified, and a row leaves the
\* edit only saved (by saveEdit) or holding the values it had before the edit
\* began, also when startEdit is called on another row meanwhile.
C26_SingleRowTransaction ==
  [][/\ \A i \in 1..MaxRows + 1 : \A j \in 1..MaxRows + 1 : StaysOutOfEdit(i, j) => previewData'[j] = previewData[i]
     /\ \A j \in 1..MaxRows + 1 : (LeavesEdit(j) /\ ~saveEdit) => previewData'[j] = editingRowCopy]_vars

\* a step in which resetUploadState runs
Resets == openExcelUploader \/ closeExcelModal

\* C30: after resetUploadState every variable of the import session has its
\* initial value: no row is under edit, the error dialog is not shown, the
\* staged rows and the snapshot are empty, the counters are 0 and the
\* duplicate action is skip.
C30_ResetIsComplete ==
  [][Resets =>
       /\ editingRow' = NoEdit
       /\ editingRowCopy' = NoRow
       /\ ~showErrorDialog'
       /\ previewData' = <<>>
       /\ originalPreviewData' = <<>>
       /\ selectedFile' = 0
       /\ sheets' = <<>>
       /\ selectedSheet' = ""
       /\ ~showSheetSelector'
       /\ ~showPreview'
       /\ totalRows' = 0
       /\ duplicatesCount' = 0
       /\ newProductsCount' = 0
       /\ ~hasDuplicates'
       /\ ~showDuplicatesModal'
       /\ selectedDuplicateAction' = "skip"
       /\ ~isUploading'
       /\ uploadProgress' = 0
       /\ uploadStats' = ZeroStats
       /\ errors' = <<>>
       /\ generalError' = ""]_vars

----------------------------------------------------------------------------
(* More properties of file and sheet selection, checked under SpecFile *)

\* C23: whenever a preview is shown, a file and a sheet are selected and the
\* staged rows, the snapshot and the counters are those of the preview of
\* that file and that sheet.
C23_PreviewIsOfSelection ==
  showPreview =>
    /\ selectedFile # 0
    /\ selectedSheet # ""
    /\ previewData = PreviewResponseData(SheetRows(selectedFile, selectedSheet)).preview_rows
    /\ originalPreviewData = previewData
    /\ totalRows = Len(previewData)
    /\ duplicatesCount = CountStatus(previewData, "duplicate")
    /\ newProductsCount = CountStatus(previewData, "new")

----------------------------------------------------------------------------
(* More properties of the events, checked under SpecOrch *)

\* a step in which an error event is handled (showError is called with its message)
ErrorHandled ==
  /\ errorTimers' = errorTimers + 1
  /\ generalError' = "upload"

\* C25: when an error event is handled the client leaves the uploading state
\* and shows the message; the staged rows, the counters, the selected file and
\* sheet, the duplicate action and the preview are unchanged.
C25_ErrorKeepsSession ==
  [][ErrorHandled =>
       /\ ~isUploading'
       /\ showPreview' = showPreview
       /\ previewData' = previewData
       /\ originalPreviewData' = originalPreviewData
       /\ totalRows' = totalRows
       /\ duplicatesCount' = duplicatesCount
       /\ newProductsCount' = newProductsCount
       /\ selectedFile' = selectedFile
       /\ selectedSheet' = selectedSheet
       /\ selectedDuplicateAction' = selectedDuplicateAction]_vars

\* after an error event the operator has committed the same rows again
C25_Witness ==
  /\ generalError = "upload"
  /\ isUploading
  /\ showPreview
  /\ JobCount = 1
  /\ \E c \in Conns : jobs[c] # <<>> /\ Head(jobs[c]).rows = previewData

----------------------------------------------------------------------------
(* Properties of the end of a commit, checked under SpecSession *)

\* C24: when a complete event is handled the client leaves the uploading
\* state, hides the preview and reloads the product list, and the error
\* dialog is shown iff the accumulated error list is not empty.
C24_CompleteEndsCommit ==
  [][CompleteHandled =>
       /\ ~isUploading'
       /\ ~showPreview'
       /\ itemsRequested'
       /\ showErrorDialog' <=> (Len(errors') > 0)]_vars

\* the timer of a complete event fires
CloseTimerFired == closeTimers' < closeTimers

\* C27: when the timer of a complete event fires while a preview obtained
\* since that event is shown, the selected file, the sheets, the staged rows
\* and the counters of that preview are kept.
C27_AutoCloseSparesNewSession ==
  [][(CloseTimerFired /\ showPreview) =>
       /\ showPreview'
       /\ selectedFile' = selectedFile
       /\ sheets' = sheets
       /\ selectedSheet' = selectedSheet
       /\ previewData' = previewData
       /\ originalPreviewData' = originalPreviewData
       /\ totalRows' = totalRows
       /\ duplicatesCount' = duplicatesCount
       /\ newProductsCount' = newProductsCount]_vars

----------------------------------------------------------------------------
(* Properties of the product form, checked under SpecList *)

\* two names are the same key
SameKey(a, b) == NormalizeName(a) = NormalizeName(b)

\* a loaded item has the same key as the name in the form
NameTaken == \E i \in 1..Len(items) : SameKey(items[i].name, newItem.name)

FormFilled == newItem.name # <<>> /\ newItem.description # ""

\* addItem issues a create request for the product in the form
IssuesCreate ==
  /\ Len(addReqs') = Len(addReqs) + 1
  /\ addReqs'[Len(addReqs')].name = newItem.name

\* addItem refuses the product in the form
WarnsOnly ==
  /\ addReqs' = addReqs
  /\ duplicateWarning' # ""
  /\ UNCHANGED <<catalog, items, newItem>>

\* C22 as stated: whatever the form holds, addItem issues a create request
\* iff no loaded item has the same normalized name.
C22_CreateIffNameFree == (addItemOutcome(newItem, items) = "requested") <=> ~NameTaken

\* C22: with a name and a description in the form, addItem issues a create
\* request iff no loaded item has the same name after trimming and
\* lowercasing, and otherwise sets the duplicate warning and leaves the
\* catalog, the list and the form unchanged; with an empty name or an empty
\* description addItem does nothing.
C22_CreateIffNameFreeWhenFilled ==
  [][/\ FormFilled => ((addItemOutcome(newItem, items) = "requested") <=> ~NameTaken)
     /\ ~FormFilled => addItemOutcome(newItem, items) = "ignored"
     /\ (addItem /\ FormFilled /\ ~NameTaken) => IssuesCreate
     /\ (addItem /\ FormFilled /\ NameTaken) => WarnsOnly]_vars

\* the product 'bolt ' was refused because 'Bolt' is in the list
C22_Witness ==
  /\ newItem.name = boltSp
  /\ newItem.description # ""
  /\ duplicateWarning # ""
  /\ addReqs = <<>>
  /\ \E i \in 1..Len(items) : items[i].name = Bolt

----------------------------------------------------------------------------
(* Properties of the end of the component, checked under SpecDestroy *)

\* a new socket is made
Connects == \E c \in Conns : conns'[c] = "CONNECTING" /\ conns[c] # "CONNECTING"

\* C29: once ngOnDestroy has run the component makes no new connection and
\* sends no command.
C29_NoChannelAfterDestroy == [][destroyed => (~Connects /\ ~Sends)]_vars

====
